---- MODULE Spec2Model ----
(***************************************************************************)
(* webdriver.TestCase (javascript/webdriver-jsapi/testcase.js): the driver *)
(* that runs each registered test as three phases, setUp, body, tearDown,  *)
(* each submitted to the application's scheduler, and then cycles to the   *)
(* next test after a fixed delay.                                          *)
(*                                                                         *)
(* The driver's own code (cycleTests, onError, runSingleTest_ and its      *)
(* scheduleAndWait) is modelled from the source.  Its collaborators, the   *)
(* promise chain, the scheduler, the timer and the test iterator of the    *)
(* base test case, are modelled from their contracts.                      *)
(***************************************************************************)
EXTENDS Integers, Sequences, FiniteSets, TLC

\* ------------------------------------------------------------------ bounds

\* The registry holds 0..MaxTests tests.
MaxTests == 2
\* A phase fails with one of NumErrors values. The driver never inspects such a
\* value, it only passes it on: two are enough to tell a value from another and
\* to have two phases fail with the same one.
NumErrors == 2
\* Time units a phase takes from its submission to its settlement.
PhaseTicks == 1

\* ------------------------------------------------------- program constants

\* self.timeout(function() { self.cycleTests(); }, 100)
Delay == 100

\* The names of the tests that can be registered, in registration order.
TestNames == <<"t1", "t2", "t3", "t4">>
\* The values a phase can fail with: the first NumErrors of these.
ErrorNames == <<"E1", "E2", "E3", "E4">>
Errors == {ErrorNames[i] : i \in 1..NumErrors}

\* What next() returns when the iterator is exhausted: a falsy value.
NoTest == "none"
\* The value of an event field that does not apply to the event.
None == "-"

\* The program's state, a record of the fields defined below. The operators
\* that model the code are functions from such a record to such a record.
VARIABLE state

vars == <<state>>

\* The registered tests, in iterator order.
tests == state.tests
\* The iterator's position: next() returns tests[testIndex].
testIndex == state.testIndex
\* The embedder has called cycleTests.
started == state.started
\* goog.testing.TestCase.currentTestName
currentTestName == state.currentTestName
\* this.result_.runCount
runCount == state.runCount
\* cycleTests' locals `test` and `hadError`, of the live closure.
test == state.test
hadError == state.hadError
\* History: the number of cycleTests calls that got a test.
cycle == state.cycle
\* The scheduler's unsettled tasks.
pending == state.pending
\* The next handler of the promise chain to run.
chainPos == state.chainPos
\* The timeouts scheduled and not yet fired.
timers == state.timers
\* The number of finalize() calls.
finalized == state.finalized
\* The clock.
now == state.now
\* History: every call and settlement, in order.
trace == state.trace

\* One entry of the history: operation `op` of cycle s.cycle at time s.now.
Ev(s, op, t, ph, v, n) ==
    [op |-> op, cycle |-> s.cycle, test |-> t, phase |-> ph, val |-> v, n |-> n,
     at |-> s.now]

Record(s, op, t, ph, v, n) ==
    [s EXCEPT !.trace = Append(@, Ev(s, op, t, ph, v, n))]

\* ------------------------------------------------ the collaborators' sinks

\* The settlement of a promise: a success, or a failure carrying a value.
Ok == [ok |-> TRUE, val |-> None]
Err(e) == [ok |-> FALSE, val |-> e]

\* next(): the next registered test, advancing the iterator; none when the
\* iterator is exhausted.
NextTest(s) ==
    IF s.testIndex <= Len(s.tests) THEN s.tests[s.testIndex] ELSE NoTest

AdvanceIterator(s) ==
    IF s.testIndex <= Len(s.tests)
    THEN Record([s EXCEPT !.testIndex = @ + 1], "next", s.tests[s.testIndex],
                None, None, 0)
    ELSE Record(s, "next", NoTest, None, None, 0)

\* log('Running test: ' + name)
Log(s, name) == Record(s, "log", name, None, None, 0)

\* doSuccess(test), doError(test, e), finalize(): reporting sinks.
DoSuccess(s, t) == Record(s, "doSuccess", t, None, None, 0)

DoError(s, t, e) == Record(s, "doError", t, None, e, 0)

Finalize(s) ==
    Record([s EXCEPT !.finalized = @ + 1], "finalize", None, None, None, 0)

\* timeout(callback, delayMs): the callback runs after delayMs.
Timeout(s, callback, delayMs) ==
    Record([s EXCEPT !.timers = @ \cup {[callback |-> callback,
                                          delay |-> delayMs,
                                          due |-> s.now + delayMs,
                                          cycle |-> s.cycle]}],
           "timeout", s.test, None, None, delayMs)

\* app.scheduleAndWaitForIdle(description, fn): the task joins the scheduler's
\* queue; the promise returned settles once the task ran and the scheduler is idle.
ScheduleAndWaitForIdle(s, description, fn) ==
    Record([s EXCEPT !.pending = @ \cup {[cycle |-> s.cycle, test |-> s.test,
                                           description |-> description,
                                           phase |-> fn, status |-> "queued"]}],
           "submit", s.test, fn, None, 0)

\* ------------------------------------------------------- the driver's code

\* A slip in onError: the error is not passed on, self.doError(test).
OnError_dropValue(s, e) == DoError([s EXCEPT !.hadError = TRUE], s.test, None)

\* A slip in onError: only the first error of a test is reported,
\* if (hadError) return.
OnError_firstOnly(s, e) ==
    IF s.hadError THEN s ELSE DoError([s EXCEPT !.hadError = TRUE], s.test, e)

\* A slip in onError: hadError is not set.
OnError_noFlag(s, e) == DoError(s, s.test, e)

\* function onError(e) { hadError = true; self.doError(test, e); }
OnError(s, e) == DoError([s EXCEPT !.hadError = TRUE], s.test, e)

\* A slip in the callback: doSuccess is called whatever hadError says.
ThenCallback_alwaysSuccess(s) ==
    Timeout(DoSuccess(s, s.test), "cycleTests", Delay)

\* A slip in the callback: the next cycle is scheduled only after a success,
\* hadError || (self.doSuccess(test), self.timeout(...)).
ThenCallback_haltOnError(s) ==
    IF s.hadError THEN s ELSE Timeout(DoSuccess(s, s.test), "cycleTests", Delay)

\* function() { hadError || self.doSuccess(test);
\*              self.timeout(function() { self.cycleTests(); }, 100); }
ThenCallback(s) ==
    LET s1 == IF s.hadError THEN s ELSE DoSuccess(s, s.test)
    IN  Timeout(s1, "cycleTests", Delay)

\* scheduleAndWait(description, fn)(): the three uses of runSingleTest_.
Description(s, fn) ==
    CASE fn = "setUp" -> <<"setUp", "()">>
      [] fn = "body" -> <<s.test, "()">>
      [] fn = "tearDown" -> <<"tearDown", "()">>

ScheduleAndWait(s, fn) == ScheduleAndWaitForIdle(s, Description(s, fn), fn)

\* A slip in the chain: the errback between body and tearDown is missing, so a
\* failure of setUp or body skips tearDown.
Handlers_noRecover ==
    << [kind |-> "callback", fn |-> "body"],
       [kind |-> "callback", fn |-> "tearDown"],
       [kind |-> "errback", fn |-> "onError"] >>

\* A slip in the chain: the first errback is chained before body, so a failure
\* of setUp is recovered before body and body runs.
Handlers_errbackFirst ==
    << [kind |-> "errback", fn |-> "onError"],
       [kind |-> "callback", fn |-> "body"],
       [kind |-> "callback", fn |-> "tearDown"],
       [kind |-> "errback", fn |-> "onError"] >>

\* A slip in the chain: the errback after tearDown is missing, so a failure of
\* tearDown is not reported and the promise returned is rejected.
Handlers_noTearDownErrback ==
    << [kind |-> "callback", fn |-> "body"],
       [kind |-> "errback", fn |-> "onError"],
       [kind |-> "callback", fn |-> "tearDown"] >>

\* The handlers runSingleTest_ chains on the promise of setUp, in order:
\*   addCallback(scheduleAndWait(test.name + '()', test.ref)).
\*   addErrback(onError).
\*   addCallback(scheduleAndWait('tearDown()', this.tearDown)).
\*   addErrback(onError)
Handlers ==
    << [kind |-> "callback", fn |-> "body"],
       [kind |-> "errback", fn |-> "onError"],
       [kind |-> "callback", fn |-> "tearDown"],
       [kind |-> "errback", fn |-> "onError"] >>

\* cycleTests chains one more callback on the promise runSingleTest_ returns:
\*   this.runSingleTest_(test, onError).then(function() {...})
Chain == Handlers \o << [kind |-> "callback", fn |-> "then"] >>

\* The promise chain from handler `pos` on, entered with settlement `st`.
\* A callback runs on a success and is skipped by a failure; an errback runs
\* on a failure and is skipped by a success. An errback that returns recovers
\* the chain: the handlers after it see a success. A callback that returns a
\* promise (a scheduled phase) suspends the chain until that promise settles.
\* The settlement that reaches the end of Handlers is the settlement of the
\* promise runSingleTest_ returns.
RECURSIVE Run(_, _, _)
Run(pos, st, s) ==
    IF pos > Len(Chain) THEN [s EXCEPT !.chainPos = pos]
    ELSE
    LET s1 == IF pos = Len(Handlers) + 1
              THEN Record(s, IF st.ok THEN "resolved" ELSE "rejected", s.test,
                          None, st.val, 0)
              ELSE s
        h == Chain[pos]
    IN  IF h.kind = "callback"
        THEN IF ~st.ok THEN Run(pos + 1, st, s1)
             ELSE IF h.fn = "then" THEN Run(pos + 1, Ok, ThenCallback(s1))
             ELSE [ScheduleAndWait(s1, h.fn) EXCEPT !.chainPos = pos + 1]
        ELSE IF st.ok THEN Run(pos + 1, st, s1)
             ELSE Run(pos + 1, Ok, OnError(s1, st.val))

\* A slip in runSingleTest_: body is scheduled at once too,
\* addCallback(scheduleAndWait(test.name + '()', test.ref)()).
RunSingleTest_eager(s) ==
    [ScheduleAndWait(ScheduleAndWait(s, "setUp"), "body") EXCEPT !.chainPos = 1]

\* runSingleTest_(test, onError): schedules setUp at once; the rest of the
\* chain waits for its settlement.
RunSingleTest_(s) == [ScheduleAndWait(s, "setUp") EXCEPT !.chainPos = 1]

\* A slip in cycleTests: the next cycle is scheduled as soon as runSingleTest_
\* returns, without waiting for its promise.
CycleTests_noWait(s) ==
    LET t == NextTest(s)
        s1 == AdvanceIterator(s)
    IN  IF t = NoTest THEN Finalize(s1)
        ELSE LET s2 == [s1 EXCEPT !.test = t, !.cycle = @ + 1,
                                  !.currentTestName = t, !.runCount = @ + 1]
                 s3 == [Log(s2, t) EXCEPT !.hadError = FALSE]
             IN  Timeout(RunSingleTest_(s3), "cycleTests", Delay)

\* A slip in cycleTests: the `return` after finalize() is a timeout, so the
\* driver keeps cycling over the exhausted iterator.
CycleTests_finalizeAndCycle(s) ==
    LET t == NextTest(s)
        s1 == AdvanceIterator(s)
    IN  IF t = NoTest THEN Timeout(Finalize(s1), "cycleTests", Delay)
        ELSE LET s2 == [s1 EXCEPT !.test = t, !.cycle = @ + 1,
                                  !.currentTestName = t, !.runCount = @ + 1]
                 s3 == [Log(s2, t) EXCEPT !.hadError = FALSE]
             IN  RunSingleTest_(s3)

\* A slip in cycleTests: runCount is incremented before the test is looked at,
\* so the call that finds the iterator exhausted counts too.
CycleTests_countBeforeCheck(s) ==
    LET t == NextTest(s)
        s1 == [AdvanceIterator(s) EXCEPT !.runCount = @ + 1]
    IN  IF t = NoTest THEN Finalize(s1)
        ELSE LET s2 == [s1 EXCEPT !.test = t, !.cycle = @ + 1,
                                  !.currentTestName = t]
                 s3 == [Log(s2, t) EXCEPT !.hadError = FALSE]
             IN  RunSingleTest_(s3)

\* A slip in cycleTests: hadError is not reset for the new test, as if it were
\* a field of the test case and not a local of the call.
CycleTests_staleHadError(s) ==
    LET t == NextTest(s)
        s1 == AdvanceIterator(s)
    IN  IF t = NoTest THEN Finalize(s1)
        ELSE LET s2 == [s1 EXCEPT !.test = t, !.cycle = @ + 1,
                                  !.currentTestName = t, !.runCount = @ + 1]
             IN  RunSingleTest_(Log(s2, t))

\* cycleTests()
CycleTests(s) ==
    LET t == NextTest(s)
        s1 == AdvanceIterator(s)
    IN  IF t = NoTest THEN Finalize(s1)
        ELSE LET s2 == [s1 EXCEPT !.test = t, !.cycle = @ + 1,
                                  !.currentTestName = t, !.runCount = @ + 1]
                 s3 == [Log(s2, t) EXCEPT !.hadError = FALSE]
             IN  RunSingleTest_(s3)

\* ------------------------------------------------------------- the actions

Init ==
    \E n \in 0..MaxTests :
        state = [tests |-> SubSeq(TestNames, 1, n), testIndex |-> 1,
                 started |-> FALSE, currentTestName |-> None, runCount |-> 0,
                 test |-> NoTest, hadError |-> FALSE, cycle |-> 0,
                 pending |-> {}, chainPos |-> 0, timers |-> {}, finalized |-> 0,
                 now |-> 0, trace |-> <<>>]

\* The embedder starts the run: it calls cycleTests once.
Start ==
    /\ ~started
    /\ state' = CycleTests([state EXCEPT !.started = TRUE])

\* The scheduler runs a queued task: the phase function is invoked.
Execute ==
    \E task \in pending :
        /\ task.status = "queued"
        /\ state' = Record([state EXCEPT !.pending = (@ \ {task}) \cup
                                          {[task EXCEPT !.status = "running"]}],
                            "invoke", task.test, task.phase, None, 0)

\* A phase that ran settles with `st` once the scheduler is idle, and the
\* handlers chained on its promise run.
Settle(task, st) ==
    LET s0 == [state EXCEPT !.pending = @ \ {task}, !.now = @ + PhaseTicks]
        s1 == Record(s0, IF st.ok THEN "settleOk" ELSE "settleErr", task.test,
                     task.phase, st.val, 0)
    IN  state' = Run(s1.chainPos, st, s1)

SettleOk ==
    \E task \in pending : task.status = "running" /\ Settle(task, Ok)

SettleErr ==
    \E task \in pending : \E e \in Errors :
        task.status = "running" /\ Settle(task, Err(e))

\* A timeout fires: its callback calls cycleTests.
TimeoutFires ==
    \E tm \in timers :
        LET s0 == [state EXCEPT !.timers = @ \ {tm},
                              !.now = IF tm.due > @ THEN tm.due ELSE @]
        IN  state' = CycleTests(Record(s0, "fire", None, None, None, tm.delay))

Next == Start \/ Execute \/ SettleOk \/ SettleErr \/ TimeoutFires

Spec == Init /\ [][Next]_vars

\* Every submitted phase eventually runs and settles, and every scheduled
\* timeout eventually fires.
FairSpec ==
    Spec /\ WF_vars(Start) /\ WF_vars(Execute) /\ WF_vars(SettleOk \/ SettleErr)
         /\ WF_vars(TimeoutFires)

\* ------------------------------------------- reading the history of a run

Cycles == 1..cycle

\* The history's entries of cycle c, in order.
CycleEvents(c) == SelectSeq(trace, LAMBDA e : e.cycle = c)

\* In the entries ev of one cycle: those with operation op, and of phase ph.
Of(ev, op) == SelectSeq(ev, LAMBDA e : e.op = op)
OfPhase(ev, op, ph) == SelectSeq(ev, LAMBDA e : e.op = op /\ e.phase = ph)

Submitted(ev, ph) == Len(OfPhase(ev, "submit", ph))
Invoked(ev, ph) == Len(OfPhase(ev, "invoke", ph))
DoSuccesses(ev) == Len(Of(ev, "doSuccess"))

\* The phases submitted to the scheduler, in order of submission.
SubmittedPhases(ev) ==
    LET sub == Of(ev, "submit") IN [i \in 1..Len(sub) |-> sub[i].phase]

\* The doError calls, in order: <<test, error>>.
DoErrors(ev) ==
    LET err == Of(ev, "doError") IN [i \in 1..Len(err) |-> <<err[i].test, err[i].val>>]

Succeeded(ev, ph) == OfPhase(ev, "settleOk", ph) # <<>>
Failed(ev, ph) == OfPhase(ev, "settleErr", ph) # <<>>
Settled(ev, ph) == Succeeded(ev, ph) \/ Failed(ev, ph)

\* The value phase ph failed with.
ErrorOf(ev, ph) == OfPhase(ev, "settleErr", ph)[1].val
FailedWith(ev, ph, e) == Failed(ev, ph) /\ ErrorOf(ev, ph) = e

\* The number of phases that failed.
Failures(ev) == Len(Of(ev, "settleErr"))

\* Cycle c, of entries ev, is over: its tearDown settled, or the run has moved on.
Completed(c, ev) == Settled(ev, "tearDown") \/ c < cycle \/ finalized > 0

\* ---------------------------------------------------------------- claims

\* The orders in which the phases of one cycle can have been submitted.
PhaseOrders ==
    { <<"setUp">>, <<"setUp", "body">>, <<"setUp", "body", "tearDown">>,
      <<"setUp", "tearDown">> }

\* C1: in every cycle the phases are submitted in the order setUp, body (if
\* at all), tearDown; body is submitted only after setUp succeeded; tearDown
\* is submitted once setUp failed or body settled, whatever the outcome, and
\* exactly once in a cycle that is over.
C1_PhaseOrder ==
    \A c \in Cycles :
        LET ev == CycleEvents(c)
        IN  /\ SubmittedPhases(ev) \in PhaseOrders
            /\ Submitted(ev, "body") = (IF Succeeded(ev, "setUp") THEN 1 ELSE 0)
            /\ Submitted(ev, "tearDown") =
                   (IF Failed(ev, "setUp") \/ Settled(ev, "body") THEN 1 ELSE 0)
            /\ Completed(c, ev) => Submitted(ev, "tearDown") = 1

\* Two cycles: body and tearDown failed in the first, setUp in the second,
\* and both have had their tearDown submitted.
C1_Witness ==
    /\ cycle = 2
    /\ Failed(CycleEvents(1), "body") /\ Failed(CycleEvents(1), "tearDown")
    /\ Failed(CycleEvents(2), "setUp") /\ Submitted(CycleEvents(2), "tearDown") = 1

\* The number of calls doError(t, e) among the entries ev.
DoErrorCalls(ev, t, e) ==
    Len(SelectSeq(ev, LAMBDA x : x.op = "doError" /\ x.test = t /\ x.val = e))

\* C2, as stated: when setUp fails with E, body is never submitted nor
\* invoked, tearDown is invoked exactly once in the cycle, and doError(test, E)
\* is called exactly once.
C2_SetUpFailure_Original ==
    \A c \in Cycles :
        LET ev == CycleEvents(c)
        IN  Failed(ev, "setUp") =>
              /\ Submitted(ev, "body") = 0 /\ Invoked(ev, "body") = 0
              /\ Submitted(ev, "tearDown") = 1 /\ Invoked(ev, "tearDown") <= 1
              /\ Completed(c, ev) => Invoked(ev, "tearDown") = 1
              /\ DoErrorCalls(ev, tests[c], ErrorOf(ev, "setUp")) = 1

\* C2, amended: when setUp fails with E, body is never submitted nor invoked,
\* tearDown is invoked exactly once in the cycle, and the failure of setUp is
\* reported by exactly one call doError(test, E), the first of the cycle; the
\* only other doError call of the cycle reports a failure of tearDown, so
\* doError(test, E) is called twice when tearDown fails with the same value E.
C2_SetUpFailure ==
    \A c \in Cycles :
        LET ev == CycleEvents(c)
        IN  Failed(ev, "setUp") =>
              /\ Submitted(ev, "body") = 0 /\ Invoked(ev, "body") = 0
              /\ Submitted(ev, "tearDown") = 1 /\ Invoked(ev, "tearDown") <= 1
              /\ Completed(c, ev) => Invoked(ev, "tearDown") = 1
              /\ DoErrors(ev) =
                   << <<tests[c], ErrorOf(ev, "setUp")>> >> \o
                   (IF Failed(ev, "tearDown")
                    THEN << <<tests[c], ErrorOf(ev, "tearDown")>> >> ELSE <<>>)
              /\ DoErrorCalls(ev, tests[c], ErrorOf(ev, "setUp")) =
                   (IF FailedWith(ev, "tearDown", ErrorOf(ev, "setUp")) THEN 2 ELSE 1)

\* setUp of the second test failed and its tearDown has succeeded.
C2_Witness ==
    /\ cycle = 2
    /\ Failed(CycleEvents(2), "setUp") /\ Succeeded(CycleEvents(2), "tearDown")

\* C3: in a cycle that is over, doSuccess(test) is called exactly once when no
\* phase failed and never when a phase failed; when all three phases
\* succeeded, doError is never called. doSuccess is never called before the
\* cycle is over.
C3_SuccessIffNoFailure ==
    \A c \in Cycles :
        LET ev == CycleEvents(c)
        IN  IF Completed(c, ev)
            THEN /\ DoSuccesses(ev) = (IF Failures(ev) = 0 THEN 1 ELSE 0)
                 /\ \A i \in 1..Len(ev) : ev[i].op = "doSuccess" => ev[i].test = tests[c]
                 /\ (Succeeded(ev, "setUp") /\ Succeeded(ev, "body")
                       /\ Succeeded(ev, "tearDown")) =>
                        (DoSuccesses(ev) = 1 /\ DoErrors(ev) = <<>>)
            ELSE DoSuccesses(ev) = 0

\* A cycle with a failure is over, and so is a cycle whose phases all succeeded.
C3_Witness ==
    /\ cycle = 2
    /\ Failures(CycleEvents(1)) > 0
    /\ Succeeded(CycleEvents(2), "setUp") /\ Succeeded(CycleEvents(2), "body")
    /\ Succeeded(CycleEvents(2), "tearDown")

\* C4: when body fails with E1 and tearDown with E2 in one cycle, doError is
\* called exactly twice, doError(test, E1) and then doError(test, E2), and
\* doSuccess is never called in that cycle.
C4_BodyAndTearDownFail ==
    \A c \in Cycles :
        LET ev == CycleEvents(c)
        IN  (Failed(ev, "body") /\ Failed(ev, "tearDown")) =>
              /\ DoErrors(ev) = << <<tests[c], ErrorOf(ev, "body")>>,
                                   <<tests[c], ErrorOf(ev, "tearDown")>> >>
              /\ DoSuccesses(ev) = 0

\* body and tearDown of the second test failed with different values, and the
\* run went on to its end.
C4_Witness ==
    /\ cycle = 2
    /\ FailedWith(CycleEvents(2), "body", "E2")
    /\ FailedWith(CycleEvents(2), "tearDown", "E1")
    /\ finalized = 1

\* C5: when setUp succeeds and body fails with E, tearDown is still submitted
\* and invoked exactly once in the cycle, and the first doError call of the
\* cycle carries the cycle's test and the value E; doError is called once for
\* each phase that failed.
C5_BodyFailure ==
    \A c \in Cycles :
        LET ev == CycleEvents(c)
        IN  (Succeeded(ev, "setUp") /\ Failed(ev, "body")) =>
              /\ Submitted(ev, "tearDown") = 1 /\ Invoked(ev, "tearDown") <= 1
              /\ Completed(c, ev) => Invoked(ev, "tearDown") = 1
              /\ Len(DoErrors(ev)) = Failures(ev)
              /\ DoErrors(ev)[1] = <<tests[c], ErrorOf(ev, "body")>>

\* body of the first test failed with E2 after setUp succeeded, and tearDown
\* succeeded.
C5_Witness ==
    /\ Succeeded(CycleEvents(1), "setUp") /\ FailedWith(CycleEvents(1), "body", "E2")
    /\ Succeeded(CycleEvents(1), "tearDown")

\* The history's entries about phases.
PhaseOps == {"submit", "invoke", "settleOk", "settleErr"}

\* The positions in the history of the entries that satisfy P.
Positions(P(_)) == {i \in 1..Len(trace) : P(trace[i])}

\* C6: the setUp of test N+1 is submitted only after the tearDown of test N
\* has settled and the timeout scheduled after test N has fired, Delay time
\* units or more after that settlement; every phase of test N has settled
\* before any phase of test N+1 is submitted, and the scheduler never holds a
\* task of an earlier test.
C6_NoInterleaving ==
    /\ \A task \in pending : task.cycle = cycle
    /\ \A c \in Cycles : c > 1 =>
         LET IsTearDownSettled(e) == /\ e.cycle = c - 1 /\ e.phase = "tearDown"
                                     /\ e.op \in {"settleOk", "settleErr"}
             IsFire(e) == e.cycle = c - 1 /\ e.op = "fire"
             IsSetUp(e) == e.cycle = c /\ e.op = "submit" /\ e.phase = "setUp"
             IsPhaseBefore(e) == e.cycle = c - 1 /\ e.op \in PhaseOps
             IsPhaseAfter(e) == e.cycle = c /\ e.op \in PhaseOps
             td == Positions(IsTearDownSettled)
             fire == Positions(IsFire)
             sub == Positions(IsSetUp)
         IN  /\ Cardinality(td) = 1 /\ Cardinality(fire) = 1 /\ Cardinality(sub) = 1
             /\ \A iTd \in td : \A iFire \in fire : \A iSub \in sub :
                  /\ iTd < iFire /\ iFire < iSub
                  /\ trace[iFire].n = Delay
                  /\ trace[iSub].at >= trace[iTd].at + Delay
                  /\ \A j \in Positions(IsPhaseBefore) : j <= iTd
                  /\ \A j \in Positions(IsPhaseAfter) : j >= iSub

\* The second test's setUp is running, after a first test whose body failed.
C6_Witness ==
    /\ cycle = 2
    /\ Failed(CycleEvents(1), "body")
    /\ Invoked(CycleEvents(2), "setUp") = 1 /\ ~Settled(CycleEvents(2), "setUp")

\* The submissions and settlements of the run, in order.
Settlements ==
    SelectSeq(trace, LAMBDA e : e.op \in {"submit", "settleOk", "settleErr"})

\* C7: the scheduler never holds more than one unsettled phase of the driver:
\* submissions and settlements alternate in the history, each settlement
\* being that of the phase submitted just before it.
C7_OnePhaseAtATime ==
    LET st == Settlements
    IN  /\ Cardinality(pending) <= 1
        /\ (pending = {}) <=> (Len(st) % 2 = 0)
        /\ \A i \in 1..Len(st) :
               IF i % 2 = 1 THEN st[i].op = "submit"
               ELSE /\ st[i].op # "submit"
                    /\ st[i].cycle = st[i - 1].cycle
                    /\ st[i].phase = st[i - 1].phase

\* The second test's tearDown is the one unsettled phase, after its setUp failed.
C7_Witness ==
    /\ cycle = 2
    /\ Failed(CycleEvents(2), "setUp")
    /\ \E task \in pending : task.phase = "tearDown" /\ task.cycle = 2

\* The number of history entries with operation op.
Calls(op) == Len(SelectSeq(trace, LAMBDA e : e.op = op))

\* next() has returned no test.
Exhausted == \E i \in 1..Len(trace) : trace[i].op = "next" /\ trace[i].test = NoTest

\* C8: finalize() is called when next() returns no test, and only then, once
\* in the whole run; it is the last thing that happens: no phase is submitted
\* or unsettled, no timeout is scheduled, nothing is reported and the run
\* counter stays what it was, one for each test that next() returned.
C8_FinalizeOnce ==
    /\ finalized <= 1
    /\ finalized = Calls("finalize")
    /\ Exhausted <=> finalized = 1
    /\ finalized = 1 =>
         /\ trace[Len(trace)].op = "finalize"
         /\ trace[Len(trace) - 1].op = "next" /\ trace[Len(trace) - 1].test = NoTest
         /\ pending = {} /\ timers = {}
         /\ runCount = Calls("log") /\ runCount = Len(tests)
         /\ ~ENABLED Next

\* The run of two tests is finalized.
C8_Witness == finalized = 1 /\ Len(tests) = 2 /\ cycle = 2

\* C9: once the tearDown of a cycle has settled, whatever failed in the
\* cycle, the promise of runSingleTest_ has settled successfully and exactly
\* one timeout has been scheduled, with delay 100 and cycleTests as its
\* callback; it is pending, or it has fired and cycleTests has called next().
C9_AlwaysCycles ==
    /\ Cardinality(timers) <= 1
    /\ \A c \in Cycles :
         LET ev == CycleEvents(c)
             out == Of(ev, "timeout")
             fire == Of(ev, "fire")
         IN  /\ Of(ev, "rejected") = <<>>
             /\ Len(out) = (IF Settled(ev, "tearDown") THEN 1 ELSE 0)
             /\ Len(fire) <= Len(out)
             /\ Settled(ev, "tearDown") =>
                  /\ Len(Of(ev, "resolved")) = 1
                  /\ out[1].n = 100
                  /\ IF fire = <<>>
                     THEN /\ c = cycle
                          /\ timers = {[callback |-> "cycleTests", delay |-> 100,
                                        due |-> out[1].at + 100, cycle |-> c]}
                     ELSE /\ timers = {} \/ c < cycle
                          /\ \E i \in 1..Len(ev) - 1 :
                                /\ ev[i].op = "fire" /\ ev[i + 1].op = "next"
                                /\ \E j \in 1..i - 1 : ev[j].op = "timeout"

\* Every phase that ran in the first cycle failed, and the second cycle runs.
C9_Witness ==
    /\ cycle = 2
    /\ Failed(CycleEvents(1), "setUp") /\ Failed(CycleEvents(1), "tearDown")
    /\ pending # {}

\* The tests that next() returned, in order.
TestsRun ==
    LET nx == SelectSeq(trace, LAMBDA e : e.op = "next" /\ e.test # NoTest)
    IN  [i \in 1..Len(nx) |-> nx[i].test]

\* Every registered test has gone through exactly one cycle, in iterator order.
EachTestOnce ==
    /\ TestsRun = tests
    /\ cycle = Len(tests)
    /\ \A c \in Cycles :
          LET ev == CycleEvents(c)
          IN  /\ Submitted(ev, "setUp") = 1 /\ Settled(ev, "setUp")
              /\ Submitted(ev, "tearDown") = 1 /\ Settled(ev, "tearDown")
              /\ \A i \in 1..Len(ev) : ev[i].op \in PhaseOps => ev[i].test = tests[c]

\* C10: when every submitted phase eventually settles and every timeout
\* eventually fires, the run reaches the state in which finalize() has been
\* called, and by then every registered test has gone through exactly one
\* cycle, in iterator order.
C10_Terminates ==
    /\ <>(finalized = 1)
    /\ [](finalized >= 1 => EachTestOnce)

\* The run of two tests is finalized after a failure in each of them.
C10_Witness ==
    /\ finalized = 1 /\ Len(tests) = 2
    /\ Failures(CycleEvents(1)) > 0 /\ Failures(CycleEvents(2)) > 0

\* The entries of ev that are reports: doError and doSuccess calls.
IsReport(e) == e.op \in {"doError", "doSuccess"}

\* The position in ev of the settlement of tearDown, 0 when it has not settled.
TearDownSettledAt(ev) ==
    LET at == {i \in 1..Len(ev) : /\ ev[i].op \in {"settleOk", "settleErr"}
                                  /\ ev[i].phase = "tearDown"}
    IN  IF at = {} THEN 0 ELSE CHOOSE i \in at : TRUE

\* C11, as stated: in every cycle no doError and no doSuccess call is made
\* before the tearDown of that cycle has settled.
C11_ReportAfterTearDown_Original ==
    \A c \in Cycles :
        LET ev == CycleEvents(c)
            td == TearDownSettledAt(ev)
        IN  \A i \in 1..Len(ev) : IsReport(ev[i]) => (td > 0 /\ td < i)

\* C11, amended: doSuccess is called only after the tearDown of the cycle has
\* settled; doError is called as soon as the phase that failed settles, with
\* the value it failed with, so a failure of setUp or body is reported before
\* tearDown is submitted and only a failure of tearDown is reported after
\* tearDown has settled.
C11_ReportAtFailure ==
    \A c \in Cycles :
        LET ev == CycleEvents(c)
            td == TearDownSettledAt(ev)
        IN  /\ \A i \in 1..Len(ev) :
                 /\ ev[i].op = "doSuccess" => (td > 0 /\ td < i)
                 /\ ev[i].op = "doError" =>
                        /\ i > 1 /\ ev[i - 1].op = "settleErr"
                        /\ ev[i - 1].val = ev[i].val
                        /\ ev[i - 1].phase # "tearDown" =>
                               /\ td = 0 \/ i < td
                               /\ i < Len(ev) /\ ev[i + 1].op = "submit"
                               /\ ev[i + 1].phase = "tearDown"
                        /\ ev[i - 1].phase = "tearDown" => td = i - 1
                 /\ ev[i].op = "settleErr" => (i < Len(ev) /\ ev[i + 1].op = "doError")

\* The body of the second test failed and was reported while its tearDown is
\* still unsettled.
C11_Witness ==
    /\ cycle = 2
    /\ Failed(CycleEvents(2), "body") /\ Len(DoErrors(CycleEvents(2))) = 1
    /\ \E task \in pending : task.phase = "tearDown" /\ task.status = "running"

\* C12: the run counter is incremented by one for every test that next()
\* returns, and at no other time: in every state it is the number of cycles
\* started, of tests returned by next(), of 'Running test' messages and of
\* setUp submissions. In each cycle the message for the cycle's test is logged
\* right after next() and right before setUp is submitted.
C12_RunCount ==
    /\ runCount = cycle
    /\ runCount = Len(SelectSeq(trace, LAMBDA e : e.op = "next" /\ e.test # NoTest))
    /\ runCount = Calls("log")
    /\ runCount = Len(SelectSeq(trace, LAMBDA e : e.op = "submit" /\ e.phase = "setUp"))
    /\ currentTestName = (IF cycle = 0 THEN None ELSE tests[cycle])
    /\ \A i \in 1..Len(trace) :
          trace[i].op = "log" =>
              /\ trace[i].test = tests[trace[i].cycle]
              /\ i > 1 /\ trace[i - 1].op = "next" /\ trace[i - 1].test = trace[i].test
              /\ i < Len(trace) /\ trace[i + 1].op = "submit"
              /\ trace[i + 1].phase = "setUp" /\ trace[i + 1].cycle = trace[i].cycle

\* The second test's setUp has been submitted and not yet run: two tests counted.
C12_Witness ==
    /\ runCount = 2
    /\ \E task \in pending : task.phase = "setUp" /\ task.status = "queued"

\* The history entries a step appends.
Appended == SubSeq(trace', Len(trace) + 1, Len(trace'))

\* C13: while a submitted phase is unsettled the driver takes no other step:
\* the next thing that happens is that this phase is run, or that it settles.
\* Until then nothing is reported, next() is not called, no timeout is pending
\* or scheduled and finalize() is not called, so a phase that never settles
\* stops the run where it is.
C13_WaitsForSettlement ==
    [][ pending # {} =>
          /\ timers = {} /\ finalized = 0
          /\ \E task \in pending :
               /\ Appended # <<>>
               /\ Appended[1].cycle = task.cycle /\ Appended[1].phase = task.phase
               /\ IF task.status = "queued"
                  THEN /\ Appended = << Appended[1] >>
                       /\ Appended[1].op = "invoke"
                       /\ pending' = {[task EXCEPT !.status = "running"]}
                  ELSE /\ Appended[1].op \in {"settleOk", "settleErr"}
                       /\ task \notin pending'
               /\ runCount' = runCount /\ testIndex' = testIndex
               /\ finalized' = finalized ]_vars

\* The body of the second test is running: the driver waits for it.
C13_Witness ==
    /\ cycle = 2
    /\ \E task \in pending : task.phase = "body" /\ task.status = "running"
    /\ timers = {} /\ finalized = 0

\* C14: when setUp fails with E1 and tearDown with E2 in one cycle, body is
\* neither submitted nor invoked and doError is called exactly twice,
\* doError(test, E1) and then doError(test, E2). In every cycle the number of
\* doError calls is the number of phases that failed, and is at most two.
C14_OneErrorPerFailure ==
    \A c \in Cycles :
        LET ev == CycleEvents(c)
        IN  /\ Len(DoErrors(ev)) = Failures(ev)
            /\ Len(DoErrors(ev)) <= 2
            /\ (Failed(ev, "setUp") /\ Failed(ev, "tearDown")) =>
                  /\ Submitted(ev, "body") = 0 /\ Invoked(ev, "body") = 0
                  /\ DoErrors(ev) = << <<tests[c], ErrorOf(ev, "setUp")>>,
                                       <<tests[c], ErrorOf(ev, "tearDown")>> >>

\* setUp of the second test failed with E2 and its tearDown with E1.
C14_Witness ==
    /\ cycle = 2
    /\ FailedWith(CycleEvents(2), "setUp", "E2")
    /\ FailedWith(CycleEvents(2), "tearDown", "E1")

\* C15: the had-error flag belongs to one cycle: it says whether a phase of
\* the current cycle has failed, whatever happened in earlier cycles, so a
\* cycle whose phases all succeeded reports doSuccess even after a test that
\* failed; every doError and doSuccess call of a cycle carries that cycle's
\* test.
C15_ErrorStatePerCycle ==
    /\ hadError = (cycle >= 1 /\ Failures(CycleEvents(cycle)) > 0)
    /\ \A c \in Cycles :
          LET ev == CycleEvents(c)
          IN  /\ \A i \in 1..Len(ev) : IsReport(ev[i]) => ev[i].test = tests[c]
              /\ (Completed(c, ev) /\ Failures(ev) = 0) => DoSuccesses(ev) = 1

\* The first test failed and the second, whose phases all succeeded, is over.
C15_Witness ==
    /\ cycle = 2
    /\ Failures(CycleEvents(1)) > 0
    /\ Failures(CycleEvents(2)) = 0 /\ Succeeded(CycleEvents(2), "tearDown")
    /\ DoSuccesses(CycleEvents(2)) = 1

\* The tests for which doSuccess was called, and those for which doError was.
Passed == {trace[i].test : i \in {j \in 1..Len(trace) : trace[j].op = "doSuccess"}}
Errored == {trace[i].test : i \in {j \in 1..Len(trace) : trace[j].op = "doError"}}

Registered == {tests[i] : i \in 1..Len(tests)}

\* C16: once finalize() has been called, the run counter is the number of
\* registered tests; every registered test has had exactly one doSuccess call
\* or at least one doError call, never both; and the number of doSuccess
\* calls plus the number of tests with a doError call is the run counter.
C16_Accounting ==
    finalized >= 1 =>
        /\ runCount = Len(tests)
        /\ Passed \cup Errored = Registered
        /\ Passed \cap Errored = {}
        /\ \A t \in Passed :
              Len(SelectSeq(trace, LAMBDA e : e.op = "doSuccess" /\ e.test = t)) = 1
        /\ Calls("doSuccess") + Cardinality(Errored) = runCount

\* The run of two tests is finalized: one passed, the other had two errors.
C16_Witness ==
    /\ finalized = 1 /\ Len(tests) = 2
    /\ Cardinality(Passed) = 1 /\ Calls("doError") = 2

====
